---- MODULE Spec2Model ----
(***************************************************************************)
(* The TPC-H benchmark harness of datafusion-ray (tpch/tpcbench.py): the   *)
(* command line (the __main__ block) and main(), as one sequential         *)
(* process.  Python strings that the code inspects character by character  *)
(* (SQL texts, the values of --concurrency and --batch-size) are sequences *)
(* of characters, a character being a one-character string for ASCII and   *)
(* "U+" with the hexadecimal code point for any other; paths are sequences *)
(* of path tokens ("/" is a token); Optional values are sequences of       *)
(* length at most one (<<>> is None / not given).                          *)
(***************************************************************************)
EXTENDS Integers, Sequences, FiniteSets, TLC

\* ------------------------------------------------------------------ bounds
\* Longest ad hoc SQL text (--query) that is enumerated.
MaxSqlLen == 3
\* In the catalog of the suite runs with --validate the files
\* q1..q<MaxBusyFiles> hold statements and the other files are blank.
MaxBusyFiles == 3

\* --------------------------------------------------------- program constants
FirstQnum == 1
LastQnum == 22
QnumDefault == -1
BatchSizeDefault == 8192
PrefetchDefault == 0

None == <<>>
Some(v) == <<v>>

\* ------------------------------------------------------------ Python helpers
HexDigits ==
    <<"0", "1", "2", "3", "4", "5", "6", "7", "8", "9",
      "A", "B", "C", "D", "E", "F">>

RECURSIVE hex(_)
hex(n) ==
    IF n < 16 THEN HexDigits[n + 1]
    ELSE hex(n \div 16) \o HexDigits[(n % 16) + 1]

\* The character of a code point above 127, written "U+" and at least four
\* hexadecimal digits.
Char(n) ==
    "U+" \o (IF n < 16 THEN "000" ELSE IF n < 256 THEN "00"
             ELSE IF n < 4096 THEN "0" ELSE "") \o hex(n)

\* The characters str.strip() removes (str.isspace): \t \n \x0b \f \r,
\* \x1c-\x1f, space, U+0085, U+00A0, U+1680, U+2000-U+200A, U+2028, U+2029,
\* U+202F, U+205F, U+3000.
Whitespace ==
    {" ", "\t", "\n", "\r", "\f", "", "", "", "", ""}
    \cup {Char(n) : n \in {133, 160, 5760} \cup (8192..8202)
                           \cup {8232, 8233, 8239, 8287, 12288}}

RECURSIVE lstrip(_)
lstrip(s) ==
    IF s # <<>> /\ Head(s) \in Whitespace THEN lstrip(Tail(s)) ELSE s

RECURSIVE rstrip(_)
rstrip(s) ==
    IF s # <<>> /\ s[Len(s)] \in Whitespace
    THEN rstrip(SubSeq(s, 1, Len(s) - 1)) ELSE s

\* str.strip()
strip(s) == rstrip(lstrip(s))

\* str.split(sep): the fragments between the separators; never empty.
RECURSIVE split(_, _)
split(s, sep) ==
    IF \A i \in 1..Len(s) : s[i] # sep
    THEN <<s>>
    ELSE LET i == CHOOSE k \in 1..Len(s) :
                      s[k] = sep /\ \A j \in 1..(k - 1) : s[j] # sep
         IN <<SubSeq(s, 1, i - 1)>> \o split(SubSeq(s, i + 1, Len(s)), sep)

Digits == <<"0", "1", "2", "3", "4", "5", "6", "7", "8", "9">>

\* str(n) of an int
RECURSIVE py_str(_)
py_str(n) ==
    IF n < 0 THEN "-" \o py_str(0 - n)
    ELSE IF n < 10 THEN Digits[n + 1]
    ELSE py_str(n \div 10) \o Digits[(n % 10) + 1]

\* The code points of the digit zero of every Unicode decimal digit block
\* other than ASCII; the digits 1..9 of a block follow its zero.
DigitZeros ==
    {1632, 1776, 1984, 2406, 2534, 2662, 2790, 2918, 3046, 3174, 3302, 3430,
     3558, 3664, 3792, 3872, 4160, 4240, 6112, 6160, 6470, 6608, 6784, 6800,
     6992, 7088, 7232, 7248, 42528, 43216, 43264, 43472, 43504, 43600, 44016,
     65296, 66720, 68912, 69734, 69872, 69942, 70096, 70384, 70736, 70864,
     71248, 71360, 71472, 71904, 72016, 72784, 73040, 73120, 92768, 92864,
     93008, 120782, 120792, 120802, 120812, 120822, 123200, 123632, 125264,
     130032}

\* The characters int() reads as the decimal digit v.
DigitChars(v) == {Digits[v + 1]} \cup {Char(z + v) : z \in DigitZeros}

is_digit(c) == \E v \in 0..9 : c \in DigitChars(v)
digit_value(c) == CHOOSE v \in 0..9 : c \in DigitChars(v)

\* The separators \x1c-\x1f: whitespace to str.isspace and str.strip(), yet
\* not skipped by int().
Separators == {"", "", "", ""}

\* The whitespace int() skips before and after a numeral.
IntSpace == Whitespace \ Separators

RECURSIVE int_strip(_)
int_strip(s) ==
    IF s # <<>> /\ Head(s) \in IntSpace THEN int_strip(Tail(s))
    ELSE IF s # <<>> /\ s[Len(s)] \in IntSpace
    THEN int_strip(SubSeq(s, 1, Len(s) - 1))
    ELSE s

\* The most decimal digits int() converts (the interpreter's default limit);
\* a longer numeral raises ValueError.
MaxStrDigits == 4300

\* The numeral without the surrounding whitespace and the sign.
unsigned(s) ==
    LET t == int_strip(s)
    IN IF t # <<>> /\ Head(t) \in {"+", "-"} THEN Tail(t) ELSE t

\* int(s) is defined (else ValueError): whitespace, an optional sign, then
\* at most MaxStrDigits decimal digits with single underscores between
\* digits, then whitespace.
is_numeral(s) ==
    LET d == unsigned(s)
    IN /\ d # <<>>
       /\ \A i \in 1..Len(d) : d[i] = "_" \/ is_digit(d[i])
       /\ d[1] # "_"
       /\ d[Len(d)] # "_"
       /\ \A i \in 1..(Len(d) - 1) : ~(d[i] = "_" /\ d[i + 1] = "_")
       /\ Cardinality({i \in 1..Len(d) : d[i] # "_"}) <= MaxStrDigits

RECURSIVE digits_value(_)
digits_value(d) ==
    IF d = <<>> THEN 0
    ELSE LET before == digits_value(SubSeq(d, 1, Len(d) - 1))
         IN IF d[Len(d)] = "_" THEN before
            ELSE 10 * before + digit_value(d[Len(d)])

\* int(s) of a numeral, given as the sequence of its characters.
py_int(s) ==
    LET t == int_strip(s)
    IN IF t # <<>> /\ Head(t) = "-" THEN 0 - digits_value(unsigned(s))
       ELSE digits_value(unsigned(s))

\* os.path.join(a, b) for a relative b
os_path_join(a, b) ==
    IF a = <<>> \/ a[Len(a)] = "/" THEN a \o b ELSE a \o <<"/">> \o b

\* A Python dict is a sequence of <<key, value>> in insertion order.
DictHas(d, k) == \E i \in 1..Len(d) : d[i][1] = k
DictKeys(d) == [i \in 1..Len(d) |-> d[i][1]]
DictValues(d) == [i \in 1..Len(d) |-> d[i][2]]
DictGet(d, k) == d[CHOOSE i \in 1..Len(d) : d[i][1] = k][2]
\* d[k] = v: an existing key keeps its place, a new key goes last.
DictSet(d, k, v) ==
    IF DictHas(d, k)
    THEN [i \in 1..Len(d) |-> IF d[i][1] = k THEN <<k, v>> ELSE d[i]]
    ELSE Append(d, <<k, v>>)

\* --------------------------------------------------------------- the inputs
Alphabet == {"a", "b", ";", " ", "\n"}
\* Every SQL text of at most MaxSqlLen characters.
SqlTexts == UNION {[1..n -> Alphabet] : n \in 0..MaxSqlLen}

\* --qnum values the operator may type (besides leaving it out).
QnumChoices == {QnumDefault, 0, 1, 15, 22, 23}
\* --data values.
DataPaths == {<<"data">>, <<"data", "/">>}

\* The query catalog tpch/queries/q<N>.sql as shipped beside the script: one
\* statement per file, with or without a closing ";" and a final newline, and
\* one file of several statements around a blank fragment.
QueryBank ==
    [i \in FirstQnum..LastQnum |->
        IF i = 15 THEN <<"a", ";", " ", "\n", ";", "b", ";", "\n">>
        ELSE IF i % 2 = 0 THEN <<"a">> ELSE <<"b", ";", "\n">>]
\* A catalog whose files after the first MaxBusyFiles hold no statement.
QuietBank ==
    [i \in FirstQnum..LastQnum |->
        IF i <= MaxBusyFiles THEN QueryBank[i] ELSE <<"\n">>]
QueryBanks == {QueryBank, QuietBank}

\* --batch-size values (no type=: a string), besides leaving it out.
BatchSizeChoices ==
    {None, Some(<<"6", "4">>), Some(<<"a", "b", "c">>),
     Some(<<"8", "1", "9", "2">>), Some(<<" ", "+", "0", "_", "2", "\n">>),
     Some(<<"1", "_">>), Some(<<"6", "4", "">>)}
\* --concurrency values (the option is required and has no type=).
ConcurrencyChoices ==
    {<<"2">>, <<"0">>, <<"-", "1">>, <<"1", "0", "0">>, <<"0", "2">>,
     <<"", "2">>, <<"\t", Char(8192), "2", Char(160)>>,
     [i \in 1..(MaxStrDigits + 1) |-> "0"]}
\* --prefetch-buffer-size values (type=int), besides leaving it out.
PrefetchChoices == {None, Some(-1)}

\* The command lines that are enumerated.  Runs: --qnum left out, every ad hoc
\* text (or none), with and without --validate; every data path and either
\* binding mode for the suite without --validate and for the texts of at most
\* one character.  Query selection: every typed --qnum, alone or beside an ad
\* hoc text of at most one character (a text given beside --qnum is never
\* split), under the first data path and explicit binding.  Configuration:
\* the other --concurrency, --batch-size and --prefetch-buffer-size values
\* with --qnum 1.
Argvs ==
    {av \in [qnum : {None} \cup {Some(n) : n \in QnumChoices},
             query : {None} \cup {Some(t) : t \in SqlTexts},
             data : DataPaths,
             listing_tables : BOOLEAN,
             validate : BOOLEAN,
             concurrency : ConcurrencyChoices,
             batch_size : BatchSizeChoices,
             partitions_per_processor : {None},
             prefetch_buffer_size : PrefetchChoices,
             worker_pool_min : {None}] :
        /\ av.qnum # None =>
               /\ av.query = None \/ Len(av.query[1]) <= 1
               /\ av.data = <<"data">>
               /\ ~av.listing_tables
        /\ (IF av.query = None THEN av.validate
                                 ELSE Len(av.query[1]) >= 2) =>
               /\ av.data = <<"data">>
               /\ ~av.listing_tables
        /\ av.batch_size # None =>
               /\ av.concurrency = <<"2">>
               /\ av.prefetch_buffer_size = None
        /\ (av.concurrency # <<"2">> \/ av.prefetch_buffer_size # None
               \/ av.batch_size # None) =>
               /\ av.qnum = Some(1)
               /\ av.query = None
               /\ ~av.validate}

\* What ctx.sql(s).collect() may return: a list of record batches, a record
\* batch being a sequence of rows; the empty list for a statement without rows.
DistResults == {<<>>, <<<<1>>>>, <<<<1>>, <<2>>>>}
\* What the reference engine may return for one statement: one record batch.
RefResults == {<<>>, <<1>>, <<1, 2>>}

\* --------------------------------------------------------------- the state
VARIABLES
    argv,          \* the command line
    query_files,   \* content of queries/q<N>.sql
    pc,            \* position of the process
    exit_status,   \* None while running, then Some(code)
    cli_out,       \* what the __main__ block printed
    queries,       \* list of (qid, sql)
    ray_up,        \* ray.init has run
    ctx,           \* the DFRayContext: settings and table catalog
    clock,         \* time.time(), in ticks
    results_path,
    results,       \* the in-memory report
    files,         \* report files on disk: dict path -> content
    qi,            \* how many queries the for loop has taken
    qid, sql,      \* the loop variables
    statements, batches, start_time, end_time, calculated,
    answer_batches, \* the reference results that have rows (line 115)
    trace,         \* calls and prints of the current loop iteration
    executed,      \* qids whose iteration began, in order
    completed      \* qids whose iteration ended, in order

vars == <<argv, query_files, pc, exit_status, cli_out, queries, ray_up, ctx,
          clock, results_path, results, files, qi, qid, sql, statements,
          batches, start_time, end_time, calculated, answer_batches, trace,
          executed, completed>>

\* A local that is not assigned yet.
Unbound == [bound |-> FALSE]

\* argparse: the defaults and the type= conversions.
parse_args(av) ==
    [qnum |-> IF av.qnum = None THEN QnumDefault ELSE av.qnum[1],
     query |-> av.query,
     data |-> av.data,
     listing_tables |-> av.listing_tables,
     validate |-> av.validate,
     concurrency |-> av.concurrency,
     batch_size |-> IF av.batch_size = None THEN Some(BatchSizeDefault)
                    ELSE av.batch_size,
     partitions_per_processor |-> av.partitions_per_processor,
     prefetch_buffer_size |-> IF av.prefetch_buffer_size = None
                              THEN PrefetchDefault
                              ELSE av.prefetch_buffer_size[1],
     worker_pool_min |-> av.worker_pool_min]

args == parse_args(argv)

tpch_query(qnum) == query_files[qnum]

table_names ==
    <<"customer", "lineitem", "nation", "orders", "part", "partsupp",
      "region", "supplier">>

InitFrom(avs, banks) ==
    /\ argv \in avs
    /\ query_files \in banks
    /\ pc = "cli"
    /\ exit_status = None
    /\ cli_out = <<>>
    /\ queries = <<>>
    /\ ray_up = FALSE
    /\ ctx = Unbound
    /\ clock = 0
    /\ results_path = ""
    /\ results = Unbound
    /\ files = <<>>
    /\ qi = 0
    /\ qid = ""
    /\ sql = <<>>
    /\ statements = <<>>
    /\ batches = <<>>
    /\ start_time = 0
    /\ end_time = 0
    /\ calculated = <<>>
    /\ answer_batches = <<>>
    /\ trace = <<>>
    /\ executed = <<>>
    /\ completed = <<>>

\* The suite with --validate runs on the quiet catalog, every other command
\* line on the full one.
Init ==
    /\ InitFrom(Argvs, QueryBanks)
    /\ query_files = IF /\ args.qnum = QnumDefault
                        /\ args.query = None
                        /\ args.validate
                     THEN QuietBank ELSE QueryBank

\* ------------------------------------------------- the __main__ block
\* Mutant: the suite stops one query short.
all_queries_short ==
    [i \in FirstQnum..(LastQnum - 1) |-> <<py_str(i), tpch_query(i)>>]

\* Mutant: every query of the suite filed under the value of --qnum.
all_queries_qnum_id ==
    [i \in FirstQnum..LastQnum |-> <<py_str(args.qnum), tpch_query(i)>>]

\* Line 214: the full suite.
all_queries == [i \in FirstQnum..LastQnum |-> <<py_str(i), tpch_query(i)>>]

\* Lines 219-220: int(args.concurrency) and int(args.batch_size) succeed.
\* The default of --batch-size is an int, which int() returns as it is.
call_converts ==
    /\ is_numeral(args.concurrency)
    /\ argv.batch_size # None => is_numeral(args.batch_size[1])

\* Lines 197-226: which queries to run, or exit(1); then the arguments of
\* the call of main are evaluated, where int() may raise.
SelectQueries ==
    /\ pc = "cli"
    /\ LET advisory ==
               IF args.qnum # QnumDefault /\ args.query # None
               THEN <<"Please specify either --qnum or --query, but not both">>
               ELSE <<>>
           call_main == IF call_converts
                        THEN pc' = "main" /\ UNCHANGED exit_status
                        ELSE pc' = "aborted" /\ exit_status' = Some(1)
       IN IF args.qnum # QnumDefault
          THEN IF args.qnum < FirstQnum \/ args.qnum > LastQnum
               THEN /\ cli_out' = advisory \o <<"Invalid query number">>
                    /\ exit_status' = Some(1)
                    /\ pc' = "rejected"
                    /\ UNCHANGED queries
               ELSE /\ queries' = <<<<py_str(args.qnum), tpch_query(args.qnum)>>>>
                    /\ cli_out' = advisory \o <<"Executing tpch query">>
                    /\ call_main
          ELSE IF args.query # None
               THEN /\ queries' = <<<<"custom query", args.query[1]>>>>
                    /\ cli_out' = advisory \o <<"Executing custom query">>
                    /\ call_main
               ELSE /\ queries' = all_queries
                    /\ cli_out' = advisory \o <<"Executing all tpch queries">>
                    /\ call_main
    /\ UNCHANGED <<argv, query_files, ray_up, ctx, clock, results_path,
                   results, files, qi, qid, sql, statements, batches,
                   start_time, end_time, calculated, answer_batches, trace, executed,
                   completed>>

\* ------------------------------------------------------------------ main()
\* The arguments of the call of main (lines 216-226).
data_path == args.data
concurrency == py_int(args.concurrency)
batch_size == IF argv.batch_size = None THEN args.batch_size[1]
              ELSE py_int(args.batch_size[1])
partitions_per_worker == args.partitions_per_processor
worker_pool_min == args.worker_pool_min
listing_tables == args.listing_tables
validate == args.validate
prefetch_buffer_size == args.prefetch_buffer_size

\* Mutant: the file name glued to the data path without a separator.
table_path_no_join(table) == data_path \o <<table \o ".parquet">>

\* f"{table}.parquet" under the data path (lines 72 and 112).
table_path(table) == os_path_join(data_path, <<table \o ".parquet">>)

\* An uncaught exception: the traceback, and exit status 1.
Raise ==
    /\ pc' = "aborted"
    /\ exit_status' = Some(1)

\* Lines 65-69: the three ctx.set calls.
context_settings ==
    <<<<"datafusion.execution.target_partitions", py_str(concurrency)>>,
      <<"datafusion.optimizer.enable_round_robin_repartition", "false">>,
      <<"datafusion.execution.coalesce_batches", "false">>>>

\* Lines 59-69: the context after its constructor and the first n ctx.set.
new_context(n) ==
    [batch_size |-> batch_size,
     partitions_per_worker |-> partitions_per_worker,
     prefetch_buffer_size |-> prefetch_buffer_size,
     worker_pool_min |-> worker_pool_min,
     settings |-> SubSeq(context_settings, 1, n),
     tables |-> <<>>]

\* Lines 57-69: ray.init, the context and its settings.
Connect ==
    /\ pc = "main"
    /\ ray_up' = TRUE
    /\ ctx' = new_context(Len(context_settings))
    /\ clock' = clock + 1
    /\ pc' = "register"
    /\ UNCHANGED <<argv, query_files, exit_status, cli_out, queries,
                   results_path, results, files, qi, qid, sql, statements,
                   batches, start_time, end_time, calculated, answer_batches, trace, executed,
                   completed>>

\* Lines 57-69: ray.init raises (nothing is up), or the constructor raises
\* (ray is up, ctx is not bound), or the ctx.set after n settings raises.
ConnectFails ==
    /\ pc = "main"
    /\ \E failing \in {"ray.init", "DFRayContext", "ctx.set"} :
          \E n \in 0..(Len(context_settings) - 1) :
             /\ ray_up' = (failing # "ray.init")
             /\ ctx' = IF failing = "ctx.set" THEN new_context(n) ELSE Unbound
    /\ Raise
    /\ UNCHANGED <<argv, query_files, cli_out, queries, clock,
                   results_path, results, files, qi, qid, sql, statements,
                   batches, start_time, end_time, calculated, answer_batches, trace, executed,
                   completed>>

\* The registration call the binding mode selects (lines 74-77).
register_call(listing) ==
    IF listing THEN "register_listing_table" ELSE "register_parquet"

\* Lines 71-77: one turn of the registration loop.
RegisterTable ==
    /\ pc = "register"
    /\ Len(ctx.tables) < Len(table_names)
    /\ LET table == table_names[Len(ctx.tables) + 1]
           path == table_path(table)
       IN ctx' = [ctx EXCEPT !.tables =
                      Append(@, <<register_call(listing_tables), table, path>>)]
    /\ clock' = clock + 1
    /\ UNCHANGED <<argv, query_files, pc, exit_status, cli_out, queries,
                   ray_up, results_path, results, files, qi, qid, sql,
                   statements, batches, start_time, end_time, calculated, answer_batches,
                   trace, executed, completed>>

\* A registration raises (unreadable path, malformed schema).
RegisterFails ==
    /\ pc = "register"
    /\ Len(ctx.tables) < Len(table_names)
    /\ Raise
    /\ UNCHANGED <<argv, query_files, cli_out, queries, ray_up, ctx, clock,
                   results_path, results, files, qi, qid, sql, statements,
                   batches, start_time, end_time, calculated, answer_batches, trace, executed,
                   completed>>

\* Lines 83-96: the empty report.
new_results ==
    LET base == [engine |-> "datafusion-ray",
                 benchmark |-> "tpch",
                 settings |-> [concurrency |-> concurrency,
                               batch_size |-> batch_size,
                               prefetch_buffer_size |-> prefetch_buffer_size,
                               partitions_per_worker |-> partitions_per_worker],
                 data_path |-> data_path,
                 queries |-> <<>>]
    IN IF validate
       THEN [k \in DOMAIN base \cup {"validated"} |->
                IF k = "validated" THEN <<>> ELSE base[k]]
       ELSE base

\* Mutant: the loop over the tables is left before its last turn.
CreateReport_early ==
    /\ pc = "register"
    /\ Len(ctx.tables) >= 1
    /\ LET current_time_millis == clock * 1000
       IN results_path' =
              "datafusion-ray-tpch-" \o py_str(current_time_millis) \o ".json"
    /\ results' = new_results
    /\ pc' = "loop"
    /\ UNCHANGED <<argv, query_files, exit_status, cli_out, queries, ray_up,
                   ctx, clock, files, qi, qid, sql, statements, batches,
                   start_time, end_time, calculated, answer_batches, trace,
                   executed, completed>>

\* Lines 79-96: the report's file name and the empty report.
CreateReport ==
    /\ pc = "register"
    /\ Len(ctx.tables) = Len(table_names)
    /\ LET current_time_millis == clock * 1000
       IN results_path' =
              "datafusion-ray-tpch-" \o py_str(current_time_millis) \o ".json"
    /\ results' = new_results
    /\ pc' = "loop"
    /\ UNCHANGED <<argv, query_files, exit_status, cli_out, queries, ray_up,
                   ctx, clock, files, qi, qid, sql, statements, batches,
                   start_time, end_time, calculated, answer_batches, trace, executed,
                   completed>>

\* ------------------------------------------------------- the query loop
\* Truth value of a Python list or of a record batch: it has elements.
truthy(x) == Len(x) > 0

\* Mutant: only the empty fragments are dropped (no strip).
split_statements_keep_blank(text) ==
    SelectSeq(split(text, ";"), LAMBDA s : s # <<>>)

\* Line 101: the statements of one SQL text.
split_statements(text) ==
    SelectSeq(split(text, ";"), LAMBDA s : strip(s) # <<>>)

\* prettify of a list of record batches: the rows of all batches, in order,
\* as one table.
RECURSIVE prettify(_)
prettify(bs) == IF bs = <<>> THEN <<>> ELSE Head(bs) \o prettify(Tail(bs))

\* Line 107: the renderings of the results that have rows.
format_batches(bs) ==
    LET kept == SelectSeq(bs, truthy)
    IN [i \in 1..Len(kept) |-> prettify(kept[i])]

\* json.dumps of a dict of booleans
json_bools(d) ==
    [i \in 1..Len(d) |->
        <<d[i][1], <<"bool", IF d[i][2] THEN "true" ELSE "false">>>>]

\* json.dumps of a dict of numbers
json_numbers(d) == [i \in 1..Len(d) |-> <<d[i][1], <<"num", d[i][2]>>>>]

\* json.dumps of an Optional int
json_optional(v) == IF v = None THEN <<"null">> ELSE <<"num", v[1]>>

\* Line 137: json.dumps(results): the members of the document, in the order
\* the keys were inserted (lines 83-96).
json_dumps(r) ==
    <<<<"engine", <<"str", r.engine>>>>,
      <<"benchmark", <<"str", r.benchmark>>>>,
      <<"settings",
        <<"obj", <<<<"concurrency", <<"num", r.settings.concurrency>>>>,
                   <<"batch_size", <<"num", r.settings.batch_size>>>>,
                   <<"prefetch_buffer_size",
                     <<"num", r.settings.prefetch_buffer_size>>>>,
                   <<"partitions_per_worker",
                     json_optional(r.settings.partitions_per_worker)>>>>>>>>,
      <<"data_path", <<"str", r.data_path>>>>,
      <<"queries", <<"obj", json_numbers(r.queries)>>>>>>
    \o (IF "validated" \in DOMAIN r
        THEN <<<<"validated", <<"obj", json_bools(r.validated)>>>>>>
        ELSE <<>>)

\* Lines 98-102: the loop takes the next query, splits it and starts the timer.
BeginQuery ==
    /\ pc = "loop"
    /\ qi < Len(queries)
    /\ qi' = qi + 1
    /\ qid' = queries[qi + 1][1]
    /\ sql' = queries[qi + 1][2]
    /\ statements' = split_statements(queries[qi + 1][2])
    /\ start_time' = clock
    /\ batches' = <<>>
    /\ calculated' = <<>>
    /\ answer_batches' = <<>>
    /\ trace' = <<<<"print", "executing">>, <<"time", "start">>>>
    /\ executed' = Append(executed, queries[qi + 1][1])
    /\ pc' = "collect"
    /\ UNCHANGED <<argv, query_files, exit_status, cli_out, queries, ray_up,
                   ctx, clock, results_path, results, files, end_time,
                   completed>>

\* Mutant: the timer restarted for every statement.
Collect_restarts_timer ==
    /\ pc = "collect"
    /\ Len(batches) < Len(statements)
    /\ \E r \in DistResults : batches' = Append(batches, r)
    /\ trace' = Append(trace, <<"sql", statements[Len(batches) + 1]>>)
    /\ start_time' = clock
    /\ clock' = clock + 1
    /\ UNCHANGED <<argv, query_files, pc, exit_status, cli_out, queries,
                   ray_up, ctx, results_path, results, files, qi, qid, sql,
                   statements, end_time, calculated, answer_batches, executed,
                   completed>>

\* Line 103: ctx.sql(s).collect() of the next statement.
Collect ==
    /\ pc = "collect"
    /\ Len(batches) < Len(statements)
    /\ \E r \in DistResults : batches' = Append(batches, r)
    /\ trace' = Append(trace, <<"sql", statements[Len(batches) + 1]>>)
    /\ clock' = clock + 1
    /\ UNCHANGED <<argv, query_files, pc, exit_status, cli_out, queries,
                   ray_up, ctx, results_path, results, files, qi, qid, sql,
                   statements, start_time, end_time, calculated, answer_batches, executed,
                   completed>>

\* Line 103: the distributed context raises.
CollectFails ==
    /\ pc = "collect"
    /\ Len(batches) < Len(statements)
    /\ Raise
    /\ UNCHANGED <<argv, query_files, cli_out, queries, ray_up, ctx, clock,
                   results_path, results, files, qi, qid, sql, statements,
                   batches, start_time, end_time, calculated, answer_batches, trace, executed,
                   completed>>

\* Lines 107-109: the calls of prettify, one for each result that has rows,
\* then the print of each rendering.
format_events(bs) ==
    LET kept == SelectSeq(bs, truthy)
    IN [i \in 1..Len(kept) |-> <<"prettify", kept[i]>>]
       \o [i \in 1..Len(kept) |-> <<"print", "batch", prettify(kept[i])>>]

\* Mutant: the report file written right after the timing, before validation.
Format_writes_early ==
    /\ pc = "collect"
    /\ Len(batches) = Len(statements)
    /\ end_time' = clock
    /\ results' = [results EXCEPT !.queries = DictSet(@, qid, clock - start_time)]
    /\ calculated' = format_batches(batches)
    /\ files' = DictSet(files, results_path, json_dumps(results'))
    /\ trace' = trace \o <<<<"time", "end">>>> \o format_events(batches)
    /\ pc' = IF validate THEN "validate" ELSE "write"
    /\ UNCHANGED <<argv, query_files, exit_status, cli_out, queries, ray_up,
                   ctx, clock, results_path, qi, qid, sql, statements,
                   batches, start_time, answer_batches, executed, completed>>

\* Lines 104-109: stop the timer, record the elapsed time, render the results.
Format ==
    /\ pc = "collect"
    /\ Len(batches) = Len(statements)
    /\ end_time' = clock
    /\ results' = [results EXCEPT !.queries = DictSet(@, qid, clock - start_time)]
    /\ calculated' = format_batches(batches)
    /\ trace' = trace \o <<<<"time", "end">>>> \o format_events(batches)
    /\ pc' = IF validate THEN "validate" ELSE "write"
    /\ UNCHANGED <<argv, query_files, exit_status, cli_out, queries, ray_up,
                   ctx, clock, results_path, files, qi, qid, sql, statements,
                   batches, start_time, answer_batches, executed, completed>>

\* Lines 111-114: the tables handed to the reference engine.
reference_tables == [i \in 1..Len(table_names) |->
                        <<table_names[i], table_path(table_names[i])>>]

\* Mutant: no count check; zip pairs the results up to the shorter list.
is_validated_zip(calc, answers) ==
    \A i \in 1..Len(calc) :
        i <= Len(answers) => calc[i] = prettify(<<answers[i]>>)

\* Lines 118-131: the verdict on the reference results.
is_validated(calc, answers) ==
    IF Len(answers) = Len(calc)
    THEN LET expected == [i \in 1..Len(answers) |->
                             prettify(<<answers[i]>>)]
         IN \A i \in 1..Len(calc) : calc[i] = expected[i]
    ELSE FALSE

\* Line 120: the calls of prettify on the reference results, made when the
\* counts are equal.
expected_calls(calc, answers) ==
    IF Len(answers) = Len(calc)
    THEN [i \in 1..Len(answers) |-> <<"prettify", <<answers[i]>>>>]
    ELSE <<>>

\* Lines 124-130 with the loop left at the first unequal pair.
validation_prints_first_only(calc, answers) ==
    IF Len(answers) = Len(calc)
    THEN LET expected == [i \in 1..Len(answers) |->
                             prettify(<<answers[i]>>)]
             bad == SelectSeq([i \in 1..Len(calc) |-> i],
                              LAMBDA i : calc[i] # expected[i])
         IN IF bad = <<>>
            THEN <<>>
            ELSE <<<<"print", "Expected", expected[bad[1]]>>,
                   <<"print", "Got", calc[bad[1]]>>>>
    ELSE <<<<"print", "Expected batches", Len(answers), Len(calc)>>>>

\* Lines 124-130: what validation prints.
validation_prints(calc, answers) ==
    IF Len(answers) = Len(calc)
    THEN LET expected == [i \in 1..Len(answers) |->
                             prettify(<<answers[i]>>)]
             bad == SelectSeq([i \in 1..Len(calc) |-> i],
                              LAMBDA i : calc[i] # expected[i])
         IN [j \in 1..(2 * Len(bad)) |->
                IF j % 2 = 1
                THEN <<"print", "Expected", expected[bad[(j + 1) \div 2]]>>
                ELSE <<"print", "Got", calc[bad[j \div 2]]>>]
    ELSE <<<<"print", "Expected batches", Len(answers), Len(calc)>>>>

\* Lines 110-133: run the statements on the reference engine and compare.
Validate ==
    /\ pc = "validate"
    /\ \E ref \in [1..Len(statements) -> RefResults] :
          LET answers == SelectSeq(ref, truthy)
              validated == is_validated(calculated, answers)
          IN /\ answer_batches' = answers
             /\ results' = [results EXCEPT
                               !.validated = DictSet(@, qid, validated)]
             /\ trace' = trace
                            \o <<<<"exec_sqls_on_tables", statements,
                                   reference_tables, listing_tables>>,
                                 <<"returned", ref>>>>
                            \o expected_calls(calculated, answers)
                            \o validation_prints(calculated, answers)
    /\ clock' = clock + 1
    /\ pc' = "write"
    /\ UNCHANGED <<argv, query_files, exit_status, cli_out, queries, ray_up,
                   ctx, results_path, files, qi, qid, sql, statements,
                   batches, start_time, end_time, calculated, executed,
                   completed>>

\* Lines 115-116: the reference engine raises.
ValidateFails ==
    /\ pc = "validate"
    /\ Raise
    /\ UNCHANGED <<argv, query_files, cli_out, queries, ray_up, ctx, clock,
                   results_path, results, files, qi, qid, sql, statements,
                   batches, start_time, end_time, calculated, answer_batches, trace, executed,
                   completed>>

\* Mutant: the report file is opened for appending.
WriteReport_appends ==
    /\ pc = "write"
    /\ LET results_dump == json_dumps(results)
           before == IF DictHas(files, results_path)
                     THEN DictGet(files, results_path) ELSE <<>>
       IN /\ files' = DictSet(files, results_path, before \o results_dump)
          /\ trace' = trace \o <<<<"print", "done with query", qid>>,
                                 <<"write", results_path, results_dump>>,
                                 <<"print", "results", results_dump>>>>
    /\ completed' = Append(completed, qid)
    /\ pc' = "loop"
    /\ UNCHANGED <<argv, query_files, exit_status, cli_out, queries, ray_up,
                   ctx, clock, results_path, results, qi, qid, sql,
                   statements, batches, start_time, end_time, calculated,
                   answer_batches, executed>>

\* Lines 134-142: rewrite the report file and echo it.  Opening the file
\* (which truncates it), writing the dump and printing it are one step.
WriteReport ==
    /\ pc = "write"
    /\ LET results_dump == json_dumps(results)
       IN /\ files' = DictSet(files, results_path, results_dump)
          /\ trace' = trace \o <<<<"print", "done with query", qid>>,
                                 <<"write", results_path, results_dump>>,
                                 <<"print", "results", results_dump>>>>
    /\ completed' = Append(completed, qid)
    /\ pc' = "loop"
    /\ UNCHANGED <<argv, query_files, exit_status, cli_out, queries, ray_up,
                   ctx, clock, results_path, results, qi, qid, sql,
                   statements, batches, start_time, end_time, calculated, answer_batches,
                   executed>>

\* Mutant: a failed write of the report is swallowed and the loop goes on.
WriteFails_continues ==
    /\ pc = "write"
    /\ pc' = "loop"
    /\ UNCHANGED <<argv, query_files, exit_status, cli_out, queries, ray_up,
                   ctx, clock, results_path, results, files, qi, qid, sql,
                   statements, batches, start_time, end_time, calculated,
                   answer_batches, trace, executed, completed>>

\* Line 139: what a write that fails leaves in the file that open() has
\* truncated: nothing, or a proper prefix of the text of the dump, which is
\* not a JSON document: the opening brace, k complete members (none, some or
\* all of them) and possibly a part of what follows.
partial_writes(results_dump) ==
    {<<>>} \cup {<<<<"truncated", SubSeq(results_dump, 1, k)>>>> :
                    k \in 0..Len(results_dump)}

\* Lines 134-139: after the print of line 134 the report file cannot be
\* opened (it stays as it is) or, opened and truncated, cannot be written.
WriteFails ==
    /\ pc = "write"
    /\ \E left \in {None} \cup {Some(w) : w \in
                                     partial_writes(json_dumps(results))} :
          files' = IF left = None THEN files
                   ELSE DictSet(files, results_path, left[1])
    /\ trace' = Append(trace, <<"print", "done with query", qid>>)
    /\ Raise
    /\ UNCHANGED <<argv, query_files, cli_out, queries, ray_up, ctx, clock,
                   results_path, results, qi, qid, sql, statements,
                   batches, start_time, end_time, calculated, answer_batches,
                   executed, completed>>

\* Mutant: failure only when every outcome is false.
final_status_all(r) ==
    IF validate /\ (\A i \in 1..Len(r.validated) : r.validated[i][2] = FALSE)
    THEN 1 ELSE 0

\* Line 148: the exit status of a run that processed every query.
final_status(r) ==
    IF validate /\ (\E i \in 1..Len(r.validated) : r.validated[i][2] = FALSE)
    THEN 1 ELSE 0

\* Mutant: the loop is left at the first false outcome.
Finish_on_mismatch ==
    /\ pc = "loop"
    /\ \/ qi = Len(queries)
       \/ validate /\ \E i \in 1..Len(results.validated) :
                         ~results.validated[i][2]
    /\ clock' = clock + 3
    /\ exit_status' = Some(final_status(results))
    /\ pc' = "done"
    /\ UNCHANGED <<argv, query_files, cli_out, queries, ray_up, ctx,
                   results_path, results, files, qi, qid, sql, statements,
                   batches, start_time, end_time, calculated, answer_batches,
                   trace, executed, completed>>

\* Lines 144-151: the loop is over; sleep, then decide the exit status.
Finish ==
    /\ pc = "loop"
    /\ qi = Len(queries)
    /\ clock' = clock + 3
    /\ exit_status' = Some(final_status(results))
    /\ pc' = "done"
    /\ UNCHANGED <<argv, query_files, cli_out, queries, ray_up, ctx,
                   results_path, results, files, qi, qid, sql, statements,
                   batches, start_time, end_time, calculated, answer_batches, trace, executed,
                   completed>>

Next ==
    \/ SelectQueries
    \/ Connect
    \/ ConnectFails
    \/ RegisterTable
    \/ RegisterFails
    \/ CreateReport
    \/ BeginQuery
    \/ Collect
    \/ CollectFails
    \/ Format
    \/ Validate
    \/ ValidateFails
    \/ WriteReport
    \/ WriteFails
    \/ Finish

Spec == Init /\ [][Next]_vars

\* ------------------------------------------------- reading a report document
\* The value of member key of a JSON object given as its member list.
JsonHas(doc, key) == \E i \in 1..Len(doc) : doc[i][1] = key
JsonMember(doc, key) == doc[CHOOSE i \in 1..Len(doc) : doc[i][1] = key][2]
\* The keys of the object stored under key, in document order.
JsonKeys(doc, key) ==
    LET members == JsonMember(doc, key)[2]
    IN [i \in 1..Len(members) |-> members[i][1]]
JsonValues(doc, key) ==
    LET members == JsonMember(doc, key)[2]
    IN [i \in 1..Len(members) |-> members[i][2]]

\* The identifiers of the query list, in list order.
query_ids == [i \in 1..Len(queries) |-> queries[i][1]]

Terminated == pc \in {"done", "aborted", "rejected"}

\* What the current iteration printed under the given label.
TracePrints(label) ==
    SelectSeq(trace, LAMBDA e : e[1] = "print" /\ e[2] = label)

\* ------------------------------------------------------------------ claims

\* C1: at every point of a run, after N queries have completed their loop
\* iteration the report file holds exactly N elapsed-time entries, keyed by
\* those N queries in the order they were run; the validation mapping is in
\* the file iff validation is enabled and then has exactly the same N keys.
C1_ReportHoldsCompletedQueries ==
    /\ completed = SubSeq(query_ids, 1, Len(completed))
    /\ completed # <<>> =>
          /\ DictKeys(files) = <<results_path>>
          /\ LET doc == DictGet(files, results_path)
             IN /\ JsonHas(doc, "queries")
                /\ JsonKeys(doc, "queries") = completed
                /\ JsonHas(doc, "validated") <=> argv.validate
                /\ JsonHas(doc, "validated")
                      => JsonKeys(doc, "validated") = completed

\* C2: at Done the exit status is 1 iff validation is enabled and some entry
\* of the accumulated validation mapping is false, and 0 otherwise.
C2_ExitStatusAtDone ==
    pc = "done" =>
        LET failed == /\ argv.validate
                      /\ \E i \in 1..Len(results.validated) :
                            ~results.validated[i][2]
        IN /\ exit_status \in {Some(0), Some(1)}
           /\ exit_status = Some(1) <=> failed

C2_Witness ==
    /\ pc = "done"
    /\ exit_status = Some(1)
    /\ Len(results.validated) = LastQnum
    /\ results.validated[LastQnum][2]

\* C3: a fatal error while the k-th query is in flight, in a step of the
\* iteration before the report write (before line 134), ends the run: nothing
\* more is executed, the report file was not written in that iteration and
\* holds the entries of the k-1 completed queries only (no file for k = 1).
C3_FatalErrorKeepsEarlierReport ==
    (pc = "aborted" /\ executed # <<>>
        /\ TracePrints("done with query") = <<>>) =>
        /\ ~ENABLED Next
        /\ exit_status = Some(1)
        /\ Len(executed) = Len(completed) + 1
        /\ executed = SubSeq(query_ids, 1, Len(executed))
        /\ \A i \in 1..Len(trace) : trace[i][1] # "write"
        /\ IF Len(executed) = 1
           THEN files = <<>>
           ELSE /\ DictKeys(files) = <<results_path>>
                /\ LET doc == DictGet(files, results_path)
                   IN /\ JsonKeys(doc, "queries") = completed
                      /\ \A i \in 1..Len(completed) : completed[i] # qid
                      /\ JsonHas(doc, "validated")
                            => JsonKeys(doc, "validated") = completed

C3_Witness ==
    /\ pc = "aborted"
    /\ Len(completed) = 2
    /\ Len(executed) = 3
    /\ DictHas(results.queries, qid)
    /\ TracePrints("done with query") = <<>>
    /\ JsonKeys(DictGet(files, results_path), "queries") = <<"1", "2">>

\* C4: with validation enabled the recorded outcome of a query is true iff
\* the reference engine and the distributed engine gave the same number of
\* non-empty results and every canonicalized pair, in order, is equal.
C4_OutcomeIffCountsAndPairsMatch ==
    (argv.validate /\ executed # <<>>
        /\ Len(results.validated) = Len(executed)) =>
        LET dist == SelectSeq(batches, LAMBDA b : b # <<>>)
            same_count == Len(answer_batches) = Len(dist)
            pairs_equal ==
                \A i \in 1..Len(dist) :
                    i <= Len(answer_batches)
                        => prettify(dist[i]) = prettify(<<answer_batches[i]>>)
        IN /\ results.validated[Len(executed)][1] = qid
           /\ results.validated[Len(executed)][2] = (same_count /\ pairs_equal)

C4_Witness ==
    /\ argv.validate
    /\ pc = "write"
    /\ Len(batches) = 2
    /\ Len(calculated) = 2
    /\ Len(answer_batches) = 2
    /\ calculated[1] = answer_batches[1]
    /\ calculated[2] # answer_batches[2]
    /\ results.validated = <<<<qid, FALSE>>>>

\* C5: every --qnum value outside 1..22 that the operator supplies makes the
\* process report the range and exit with status 1 at once: no runtime, no
\* registration, no query, no report file.
C5_OutOfRangeQnumRejected ==
    (argv.qnum # None
        /\ (argv.qnum[1] < FirstQnum \/ argv.qnum[1] > LastQnum)) =>
        /\ ~ray_up
        /\ ctx = Unbound
        /\ executed = <<>>
        /\ files = <<>>
        /\ pc # "cli" => /\ pc = "rejected"
                         /\ exit_status = Some(1)
                         /\ \E i \in 1..Len(cli_out) :
                               cli_out[i] = "Invalid query number"

\* C6: a validation mismatch does not stop the run: the queries are executed
\* once each in list order whatever the earlier outcomes, a false outcome is
\* only recorded, and the exit status is set only after the last query.
C6_MismatchIsNotFatal ==
    /\ executed = SubSeq(query_ids, 1, Len(executed))
    /\ Len(executed) = qi
    /\ pc = "done" => (executed = query_ids /\ completed = query_ids)
    /\ (pc = "loop" /\ qi < Len(queries)) => ENABLED BeginQuery
    /\ (exit_status # None /\ pc # "aborted" /\ pc # "rejected")
          => (pc = "done" /\ completed = query_ids)
    /\ (pc \notin {"cli", "rejected", "aborted"} /\ argv.validate
          /\ "validated" \in DOMAIN results)
          => \A i \in 1..Len(results.validated) :
                results.validated[i][1] = query_ids[i]

C6_Witness ==
    /\ argv.validate
    /\ pc = "done"
    /\ Len(queries) = LastQnum
    /\ completed = query_ids
    /\ ~results.validated[2][2]
    /\ ~results.validated[3][2]
    /\ results.validated[LastQnum][2]
    /\ exit_status = Some(1)

SuiteIds ==
    <<"1", "2", "3", "4", "5", "6", "7", "8", "9", "10", "11", "12", "13",
      "14", "15", "16", "17", "18", "19", "20", "21", "22">>

\* C7: whenever main is entered the query list is not empty: the numbered
\* query for a valid --qnum, the ad hoc query when only --query is given, the
\* suite 1..22 in ascending order when neither is given.
C7_QueryListNeverEmpty ==
    pc \notin {"cli", "rejected"} =>
        /\ queries # <<>>
        /\ (argv.qnum # None /\ argv.qnum[1] \in FirstQnum..LastQnum)
              => queries = <<<<SuiteIds[argv.qnum[1]],
                               query_files[argv.qnum[1]]>>>>
        /\ (argv.qnum = None /\ argv.query # None)
              => queries = <<<<"custom query", argv.query[1]>>>>
        /\ (argv.qnum = None /\ argv.query = None)
              => /\ query_ids = SuiteIds
                 /\ \A i \in 1..Len(queries) : queries[i][2] = query_files[i]

C7_Witness ==
    /\ pc = "main"
    /\ argv.qnum = None
    /\ argv.query = None
    /\ Len(queries) = LastQnum
    /\ queries[LastQnum][1] = "22"

\* The fragments joined again with the separator between them.
RECURSIVE JoinWith(_, _)
JoinWith(frags, sep) ==
    IF Len(frags) = 1 THEN frags[1]
    ELSE frags[1] \o <<sep>> \o JoinWith(Tail(frags), sep)

IsBlank(s) == \A i \in 1..Len(s) : s[i] \in Whitespace

TraceCalls(name) ==
    SelectSeq(trace, LAMBDA e : e[1] = name)

\* C8: the statements of an SQL text are exactly its ";"-separated fragments
\* that are not blank, in the order of the text, and no blank fragment is
\* handed to the distributed context or to the reference engine.
C8_StatementsAreNonBlankFragments ==
    executed # <<>> =>
        LET frags == split(sql, ";")
        IN /\ JoinWith(frags, ";") = sql
           /\ \A i \in 1..Len(frags) :
                 \A j \in 1..Len(frags[i]) : frags[i][j] # ";"
           /\ statements = SelectSeq(frags, LAMBDA f : ~IsBlank(f))
           /\ LET sent == TraceCalls("sql")
              IN /\ Len(sent) <= Len(statements)
                 /\ \A i \in 1..Len(sent) :
                       sent[i][2] = statements[i] /\ ~IsBlank(sent[i][2])
           /\ \A i \in 1..Len(trace) :
                 trace[i][1] = "exec_sqls_on_tables"
                    => /\ trace[i][2] = statements
                       /\ \A k \in 1..Len(trace[i][2]) :
                             ~IsBlank(trace[i][2][k])

C8_Witness ==
    /\ pc = "write"
    /\ argv.validate
    /\ Len(split(sql, ";")) = 4
    /\ statements = <<<<"a">>, <<"b">>>>
    /\ Len(TraceCalls("sql")) = 2
    /\ Len(TraceCalls("exec_sqls_on_tables")) = 1

\* The positions of the trace that hold the given event.
TracePositions(e) == {i \in 1..Len(trace) : trace[i] = e}

\* C9: a query is timed as one unit: every statement is submitted and
\* collected between the start and the end of the one timing window, the
\* query gets exactly one elapsed-time entry under its identifier (the ad hoc
\* tag for a --query run), and formatting, the reference run and the report
\* write come after the window.
C9_QueryTimedAsOneUnit ==
    (executed # <<>> /\ DictHas(results.queries, qid)) =>
        /\ Cardinality(TracePositions(<<"time", "start">>)) = 1
        /\ Cardinality(TracePositions(<<"time", "end">>)) = 1
        /\ LET opened == CHOOSE i \in TracePositions(<<"time", "start">>) : TRUE
               closed == CHOOSE i \in TracePositions(<<"time", "end">>) : TRUE
           IN /\ {i \in 1..Len(trace) : trace[i][1] = "sql"}
                    = (opened + 1)..(closed - 1)
              /\ closed - opened - 1 = Len(statements)
              /\ \A k \in 1..Len(statements) :
                    trace[opened + k] = <<"sql", statements[k]>>
              /\ \A i \in 1..Len(trace) :
                    trace[i][1] \in {"prettify", "exec_sqls_on_tables", "write"}
                       => i > closed
        /\ Cardinality({i \in 1..Len(results.queries) :
                           results.queries[i][1] = qid}) = 1
        /\ DictGet(results.queries, qid) = end_time - start_time
        /\ DictGet(results.queries, qid) = Len(statements)
        /\ (argv.qnum = None /\ argv.query # None)
              => DictKeys(results.queries) = <<"custom query">>

C9_Witness ==
    /\ pc = "loop"
    /\ qid = "custom query"
    /\ Len(statements) = 2
    /\ batches[1] = <<>>
    /\ batches[2] # <<>>
    /\ results.queries = <<<<"custom query", 2>>>>
    /\ Len(TraceCalls("write")) = 1

EightTables ==
    {"customer", "lineitem", "nation", "orders", "part", "partsupp",
     "region", "supplier"}

FileOf ==
    [t \in EightTables |->
        CASE t = "customer" -> "customer.parquet"
          [] t = "lineitem" -> "lineitem.parquet"
          [] t = "nation" -> "nation.parquet"
          [] t = "orders" -> "orders.parquet"
          [] t = "part" -> "part.parquet"
          [] t = "partsupp" -> "partsupp.parquet"
          [] t = "region" -> "region.parquet"
          [] t = "supplier" -> "supplier.parquet"]

\* A path with every run of separators written as one separator.
RECURSIVE NormPath(_)
NormPath(p) ==
    IF Len(p) < 2 THEN p
    ELSE IF p[1] = "/" /\ p[2] = "/" THEN NormPath(Tail(p))
    ELSE <<p[1]>> \o NormPath(Tail(p))

\* C10: exactly the eight tables are registered, once each, under their own
\* name and with the path <root>/<name>.parquet; the binding mode selects the
\* registration call only; the reference engine gets the same name-to-path
\* pairs and the same binding mode.
C10_EightTablesSamePaths ==
    ctx # Unbound =>
        /\ \A i \in 1..Len(ctx.tables) :
              /\ ctx.tables[i][2] \in EightTables
              /\ \A j \in 1..Len(ctx.tables) :
                    ctx.tables[j][2] = ctx.tables[i][2] => j = i
              /\ ctx.tables[i][1] = IF argv.listing_tables
                                    THEN "register_listing_table"
                                    ELSE "register_parquet"
              /\ NormPath(ctx.tables[i][3])
                    = NormPath(argv.data \o <<"/", FileOf[ctx.tables[i][2]]>>)
        /\ pc \notin {"main", "register", "aborted"}
              => {ctx.tables[i][2] : i \in 1..Len(ctx.tables)} = EightTables
        /\ \A i \in 1..Len(trace) :
              trace[i][1] = "exec_sqls_on_tables"
                 => /\ trace[i][3] = [k \in 1..Len(ctx.tables) |->
                                        <<ctx.tables[k][2], ctx.tables[k][3]>>]
                    /\ trace[i][4] = argv.listing_tables

C10_Witness ==
    /\ pc = "write"
    /\ argv.listing_tables
    /\ argv.data = <<"data", "/">>
    /\ Len(ctx.tables) = 8
    /\ ctx.tables[8] = <<"register_listing_table", "supplier",
                         <<"data", "/", "supplier.parquet">>>>
    /\ Len(TraceCalls("exec_sqls_on_tables")) = 1

\* C11: every configuration with which a run proceeds past Init has
\* concurrency > 0 and every other numeric field (batch size, prefetch buffer
\* depth, partitions-per-worker cap and minimum pool size when present)
\* non-negative.
C11_ConfigurationInvariant ==
    (pc \notin {"cli", "rejected"} /\ call_converts) =>
        /\ concurrency > 0
        /\ batch_size >= 0
        /\ prefetch_buffer_size >= 0
        /\ partitions_per_worker # None => partitions_per_worker[1] >= 0
        /\ worker_pool_min # None => worker_pool_min[1] >= 0

\* C12: in the validation of one query, differing counts of non-empty results
\* give the outcome false, one log of the two counts and no expected/got log;
\* equal counts give one expected/got log per unequal pair, in order, for
\* every unequal pair and not only the first.
C12_MismatchLogs ==
    (argv.validate /\ executed # <<>>
        /\ Len(results.validated) = Len(executed)) =>
        LET counts == TracePrints("Expected batches")
            wanted == TracePrints("Expected")
            got == TracePrints("Got")
            unequal ==
                SelectSeq([i \in 1..Len(calculated) |-> i],
                          LAMBDA i : calculated[i]
                                        # prettify(<<answer_batches[i]>>))
        IN IF Len(answer_batches) # Len(calculated)
           THEN /\ DictGet(results.validated, qid) = FALSE
                /\ counts = <<<<"print", "Expected batches",
                                Len(answer_batches), Len(calculated)>>>>
                /\ wanted = <<>>
                /\ got = <<>>
           ELSE /\ counts = <<>>
                /\ Len(wanted) = Len(unequal)
                /\ Len(got) = Len(unequal)
                /\ \A k \in 1..Len(unequal) :
                      /\ wanted[k][3] = prettify(<<answer_batches[unequal[k]]>>)
                      /\ got[k][3] = calculated[unequal[k]]

C12_Witness ==
    /\ argv.validate
    /\ pc = "write"
    /\ Len(calculated) = 2
    /\ Len(answer_batches) = 2
    /\ calculated[1] # prettify(<<answer_batches[1]>>)
    /\ calculated[2] # prettify(<<answer_batches[2]>>)
    /\ Len(TracePrints("Expected")) = 2
    /\ Len(TracePrints("Got")) = 2

\* The statements (by position) whose result has rows, in order.
WithRows(rs) ==
    SelectSeq([i \in 1..Len(rs) |-> i], LAMBDA i : truthy(rs[i]))

\* C13: whenever validation compares a distributed result with a reference
\* result, the two are results of the same statement of the query, also when
\* statements yield no rows on one engine or on both.
C13_PairsAreOfTheSameStatement ==
    \A p \in 1..Len(trace) :
        trace[p][1] = "returned" =>
            LET dist_of == WithRows(batches)
                ref_of == WithRows(trace[p][2])
            IN Len(ref_of) = Len(dist_of) =>
                  \A k \in 1..Len(dist_of) : dist_of[k] = ref_of[k]

\* C14: every report write of a run goes to the one file named before the
\* first query and replaces its content by the serialization of the whole
\* in-memory report; after each completed query the file holds the text that
\* the iteration echoed to standard output, which is the current report.
C14_OneFileWholeReport ==
    /\ files = <<>> \/ DictKeys(files) = <<results_path>>
    /\ \A i \in 1..Len(trace) :
          trace[i][1] = "write" =>
             /\ trace[i][2] = results_path
             /\ i < Len(trace)
             /\ trace[i + 1] = <<"print", "results", trace[i][3]>>
    /\ (pc \in {"loop", "done"} /\ completed # <<>>) =>
          LET doc == DictGet(files, results_path)
              echoed == TracePrints("results")
          IN /\ Len(echoed) = 1
             /\ echoed[1][3] = doc
             /\ doc = json_dumps(results)
             /\ JsonMember(doc, "engine") = <<"str", results.engine>>
             /\ JsonMember(doc, "benchmark") = <<"str", results.benchmark>>
             /\ JsonHas(doc, "settings")
             /\ JsonHas(doc, "data_path")
             /\ JsonKeys(doc, "queries") = DictKeys(results.queries)
             /\ JsonValues(doc, "queries")
                   = [k \in 1..Len(results.queries) |->
                         <<"num", results.queries[k][2]>>]
             /\ JsonHas(doc, "validated") = argv.validate
             /\ argv.validate =>
                   JsonKeys(doc, "validated") = DictKeys(results.validated)

C14_Witness ==
    /\ pc = "loop"
    /\ Len(completed) = 2
    /\ DictKeys(files) = <<results_path>>
    /\ Len(JsonKeys(DictGet(files, results_path), "queries")) = 2
    /\ TracePrints("results")
          = <<<<"print", "results", DictGet(files, results_path)>>>>

\* C15: all eight registrations are complete before the first statement is
\* submitted; once the registration loop is left the catalog of the context
\* never changes; a failed registration ends the run at once, with no query
\* executed and no report file.
C15_RegistrationBeforeQueries ==
    [][/\ (executed' # executed \/ Len(batches') > Len(batches)) =>
             /\ pc \notin {"cli", "main", "register"}
             /\ Len(ctx.tables) = Len(table_names)
             /\ [i \in 1..Len(ctx.tables) |-> ctx.tables[i][2]] = table_names
       /\ pc \notin {"cli", "main", "register"} => ctx' = ctx
       /\ (pc = "register" /\ pc' = "aborted") =>
             /\ executed' = <<>>
             /\ completed' = <<>>
             /\ files' = <<>>
             /\ exit_status' = Some(1)
       /\ pc # "aborted"
      ]_vars

C15_Witness ==
    /\ pc = "aborted"
    /\ ray_up
    /\ ctx # Unbound
    /\ Len(ctx.tables) = 3
    /\ executed = <<>>
    /\ files = <<>>
    /\ exit_status = Some(1)

\* Where the current iteration made the given call.
CallPositions(name) == {i \in 1..Len(trace) : trace[i][1] = name}

\* C16: queries are processed one at a time, each in the order execute,
\* format, validate (only when enabled), write the report; the report of a
\* query is written before any statement of the next query is submitted, and
\* the reference engine is invoked only after every statement of the query
\* has been collected from the distributed context.
C16_OneQueryAtATime ==
    LET submitted == CallPositions("sql")
        closed == TracePositions(<<"time", "end">>)
        referred == CallPositions("exec_sqls_on_tables")
        formatted == {i \in CallPositions("prettify") :
                         \A j \in referred : i < j}
        expected == {i \in CallPositions("prettify") :
                        \E j \in referred : j < i}
        written == CallPositions("write")
    IN /\ Len(completed) <= Len(executed)
       /\ Len(executed) <= Len(completed) + 1
       /\ completed = SubSeq(executed, 1, Len(completed))
       /\ executed = SubSeq(query_ids, 1, Len(executed))
       /\ Cardinality(closed) <= 1
       /\ Cardinality(referred) <= 1
       /\ Cardinality(written) <= 1
       /\ \A i \in submitted : \A j \in closed : i < j
       /\ \A i \in closed : \A j \in formatted \cup referred : i < j
       /\ \A i \in closed \cup formatted \cup referred \cup expected :
             \A j \in written : i < j
       /\ formatted \cup referred \cup written # {} => closed # {}
       /\ closed # {} =>
             /\ Cardinality(submitted) = Len(statements)
             /\ Len(batches) = Len(statements)
             /\ Cardinality(formatted) = Len(SelectSeq(batches, truthy))
       /\ referred # {} =>
             /\ argv.validate
             /\ Cardinality(expected)
                   = IF Len(answer_batches) = Len(calculated)
                     THEN Len(answer_batches) ELSE 0
       /\ referred = {} => expected = {}
       /\ written # {} =>
             /\ argv.validate => referred # {}
             /\ Len(completed) = Len(executed)
       /\ (trace # <<>> /\ written = {}) =>
             /\ Len(completed) = Len(executed) - 1
             /\ (Len(executed) > 1 /\ pc # "aborted") =>
                   /\ DictHas(files, results_path)
                   /\ JsonKeys(DictGet(files, results_path), "queries")
                         = completed

C16_Witness ==
    /\ argv.validate
    /\ pc = "write"
    /\ Len(executed) = 2
    /\ Len(completed) = 1
    /\ Len(batches) = 1
    /\ CallPositions("exec_sqls_on_tables") # {}
    /\ Cardinality(CallPositions("prettify")) = 2
    /\ JsonKeys(DictGet(files, results_path), "queries") = <<"1">>

\* C17: when both --qnum and --query are given the conflict is reported by
\* the advisory message only and does not abort the run: the query list is
\* the numbered selection, subject to the range check 1..22, and the SQL of
\* the ad hoc selection is never executed.
C17_ConflictIsAdvisoryOnly ==
    (argv.qnum # None /\ argv.query # None /\ pc # "cli") =>
        /\ \E i \in 1..Len(cli_out) :
              cli_out[i]
                 = "Please specify either --qnum or --query, but not both"
        /\ IF argv.qnum[1] \in FirstQnum..LastQnum
           THEN /\ pc # "rejected"
                /\ queries = <<<<SuiteIds[argv.qnum[1]],
                                 query_files[argv.qnum[1]]>>>>
                /\ \A i \in 1..Len(executed) : executed[i] # "custom query"
                /\ executed # <<>> => sql = query_files[argv.qnum[1]]
           ELSE /\ pc = "rejected"
                /\ exit_status = Some(1)
                /\ executed = <<>>

\* C18: the identifiers of every query list the command line can produce are
\* pairwise distinct, so recording an elapsed time or an outcome never
\* overwrites an earlier entry: each mapping has one key per query that got
\* that far, in list order, and one more key after each completed query.
C18_QueryIdsDistinct ==
    /\ pc \notin {"cli", "rejected"} =>
          \A i \in 1..Len(queries) : \A j \in 1..Len(queries) :
              queries[i][1] = queries[j][1] => i = j
    /\ executed # <<>> =>
          LET timed == IF DictHas(results.queries, qid)
                       THEN Len(executed) ELSE Len(executed) - 1
          IN /\ pc \in {"validate", "write", "loop", "done"}
                   => timed = Len(executed)
             /\ DictKeys(results.queries) = SubSeq(query_ids, 1, timed)
             /\ Len(results.queries) >= Len(completed)
             /\ Len(results.queries) <= Len(completed) + 1
             /\ argv.validate =>
                   /\ \E n \in {Len(completed), Len(completed) + 1} :
                         DictKeys(results.validated) = SubSeq(query_ids, 1, n)
                   /\ Len(results.validated) <= Len(results.queries)
    /\ pc \in {"loop", "done"} =>
          /\ DictKeys(results.queries) = completed
          /\ argv.validate => DictKeys(results.validated) = completed

C18_Witness ==
    /\ pc = "loop"
    /\ argv.validate
    /\ Len(queries) = LastQnum
    /\ Len(completed) = 2
    /\ DictKeys(results.queries) = <<"1", "2">>
    /\ DictKeys(results.validated) = <<"1", "2">>

====
